---- MODULE Spec2Model ----
(***************************************************************************)
(* Model of the deploy helper (src/src/deploy-website.ts) and of the       *)
(* bucket-name derivation (src/src/platform-stack.ts).                     *)
(*                                                                         *)
(* Strings whose characters matter (bucket names, origin domain names,     *)
(* distribution identifiers, caller references, domains) are tuples of     *)
(* one-character strings, so that prefix tests, concatenation and the      *)
(* regular-expression rewrites are computed character by character.        *)
(* The empty tuple << >> stands for both the empty string and an absent    *)
(* (undefined) string: JavaScript treats both as falsy, and every place    *)
(* of the code that reads such a value only tests its truthiness.          *)
(***************************************************************************)
EXTENDS Integers, Sequences, FiniteSets, TLC

VARIABLES
    \* ---- environment of deployWebsite ----
    runs,             \* the invocations of deployWebsite that take place
    bucketName,       \* options.bucketName (the same bucket for every invocation)
    profile,          \* options.profile ("" when not given)
    configFile,       \* loadSharedConfigFiles().configFile
    credentialsFile,  \* loadSharedConfigFiles().credentialsFile
    awsRegion,        \* process.env.AWS_REGION ("" when unset)
    awsDefaultRegion, \* process.env.AWS_DEFAULT_REGION ("" when unset)
    listing,          \* the pages the ListDistributions API serves
    now,              \* the last value Date.now() returned
    \* ---- one invocation of deployWebsite, per run ----
    pc,               \* where the invocation is suspended
    region,           \* const region
    marker,           \* let marker (0: undefined)
    distributionIds,  \* const distributionIds
    position,         \* index in distributionIds of the for-loop
    listRequests,     \* Marker of every ListDistributions request sent
    invalidations,    \* every CreateInvalidation request sent
    created,          \* number of CreateInvalidation requests that succeeded
    outstanding,      \* number of network calls awaiting their completion
    mirrored,         \* syncClient.sync resolved: the bucket mirrors websitePath
    rejected,         \* the call that rejected, and the message of its error
    error,            \* message of the error deployWebsite threw ("" when none)
    \* ---- PlatformStack ----
    domain,           \* props.domain
    websiteBucket     \* outcome of getWebsiteBucketName(domain)

vars == << runs, bucketName, profile, configFile, credentialsFile, awsRegion,
           awsDefaultRegion, listing, now, pc, region, marker, distributionIds,
           position, listRequests, invalidations, created, outstanding, mirrored,
           rejected, error, domain, websiteBucket >>

envVars == << runs, bucketName, profile, configFile, credentialsFile, awsRegion,
              awsDefaultRegion, listing >>

stackVars == << domain, websiteBucket >>

----------------------------------------------------------------------------
(* Bounds of the model *)

MaxPages == 2        \* pages of a listing
MaxDists == 3        \* distributions of a listing
MaxClock == 11       \* largest value Date.now() returns
MaxDomainLen == 4    \* length of the enumerated domains

Runs == {1, 2}

\* The values Date.now() returns: the last three up to MaxClock.
Clock == {t \in 0..MaxClock : t + 2 >= MaxClock}

----------------------------------------------------------------------------
(* getRegionFromProfile *)

ProfileNames == {"default", "prod"}

NoSection == [present |-> FALSE, region |-> ""]

Section(r) == [present |-> TRUE, region |-> r]

FallbackRegion == "us-east-1"

getRegionFromProfile(p, cfg, cred, envRegion, envDefault) ==
    LET profileName == IF p # "" THEN p ELSE "default"
        profileConfig == IF cfg[profileName].present
                         THEN cfg[profileName]
                         ELSE cred[profileName]
    IN  IF profileConfig.present /\ profileConfig.region # ""
        THEN profileConfig.region
        ELSE IF envRegion # "" THEN envRegion
        ELSE IF envDefault # "" THEN envDefault
        ELSE FallbackRegion

----------------------------------------------------------------------------
(* findDistributionsForBucket *)

StartsWith(s, p) ==
    /\ Len(s) >= Len(p)
    /\ SubSeq(s, 1, Len(p)) = p

OriginPrefix(bucket) == bucket \o <<".", "s", "3">>

\* ScanOrigins without the break: every matching origin pushes the identifier.
RECURSIVE ScanOriginsNoBreak(_, _, _)
ScanOriginsNoBreak(dist, i, bucket) ==
    IF i > Len(dist.Origins) THEN << >>
    ELSE (IF StartsWith(dist.Origins[i], OriginPrefix(bucket)) /\ dist.Id # << >>
          THEN << dist.Id >> ELSE << >>)
         \o ScanOriginsNoBreak(dist, i + 1, bucket)

\* The inner for-loop over one distribution's origins, from origin i on:
\* what the distribution pushes onto distributionIds.
RECURSIVE ScanOrigins(_, _, _)
ScanOrigins(dist, i, bucket) ==
    IF i > Len(dist.Origins) THEN << >>
    ELSE IF StartsWith(dist.Origins[i], OriginPrefix(bucket)) /\ dist.Id # << >>
         THEN << dist.Id >>
         ELSE ScanOrigins(dist, i + 1, bucket)

\* The outer for-loop over the distributions of one page.
RECURSIVE ScanDistributions(_, _, _)
ScanDistributions(items, i, bucket) ==
    IF i > Len(items) THEN << >>
    ELSE ScanOrigins(items[i], 1, bucket) \o ScanDistributions(items, i + 1, bucket)

\* Continue with the loop left after the first page.
ContinueNever(m) == FALSE

\* The loop condition of the do-while: a marker that is undefined (or empty)
\* ends the loop.
Continue(m) == m # 0

EmptyPage == [Items |-> << >>, NextMarker |-> 0]

\* What the API answers to a request carrying Marker m (0: no marker).
Response(m) ==
    IF listing = << >> THEN EmptyPage
    ELSE listing[IF m = 0 THEN 1 ELSE m]

----------------------------------------------------------------------------
(* deployWebsite *)

RECURSIVE Digits(_)
Digits(n) ==
    LET d == << "0", "1", "2", "3", "4", "5", "6", "7", "8", "9" >>
    IN  IF n < 10 THEN << d[n + 1] >> ELSE Digits(n \div 10) \o << d[(n % 10) + 1] >>

\* CallerReference made of the clock reading alone.
CallerReferenceTimeOnly(t, distributionId) == Digits(t)

CallerReference(t, distributionId) == Digits(t) \o << "-" >> \o distributionId

InvalidationPaths == << "/*" >>

CreateInvalidationCommand(t, distributionId) ==
    [ DistributionId  |-> distributionId,
      CallerReference |-> CallerReference(t, distributionId),
      Paths           |-> InvalidationPaths ]

SyncFailedMessage(cause) == "S3 sync failed: " \o cause

NoRejection == [call |-> "", message |-> ""]

\* The errors a call may reject with.
Rejections(call) ==
    { [call |-> call, message |-> m] : m \in {"AccessDenied", "Throttling"} }

\* SendInvalidation that fans out: the requests for distributionIds[k] and all
\* the identifiers after it are sent together, none awaited before the next.
SendInvalidationFanOut(r, ids, k) ==
    \E t \in {c \in Clock : c >= now} :
        /\ now' = t
        /\ invalidations' =
               [invalidations EXCEPT ![r] =
                   @ \o [i \in 1..(Len(ids) - k + 1) |->
                            CreateInvalidationCommand(t, ids[k + i - 1])]]
        /\ position' = [position EXCEPT ![r] = Len(ids)]

\* The for-loop reaches distributionIds[k]: Date.now() is read (the clock never
\* runs backwards) and the CreateInvalidation request is sent.
SendInvalidation(r, ids, k) ==
    \E t \in {c \in Clock : c >= now} :
        /\ now' = t
        /\ invalidations' =
               [invalidations EXCEPT ![r] = Append(@, CreateInvalidationCommand(t, ids[k]))]
        /\ position' = [position EXCEPT ![r] = k]

\* deployWebsite is called: it suspends in getRegionFromProfile, on
\* loadSharedConfigFiles().
Start(r) ==
    /\ r \in runs
    /\ pc[r] = "idle"
    /\ pc' = [pc EXCEPT ![r] = "loadConfig"]
    /\ outstanding' = [outstanding EXCEPT ![r] = @ + 1]
    /\ UNCHANGED << envVars, stackVars, now, region, marker, distributionIds, position,
                    listRequests, invalidations, created, mirrored, rejected, error >>

\* loadSharedConfigFiles() resolves: the region is computed, the clients are
\* built and syncClient.sync is called.
ConfigLoaded(r) ==
    /\ pc[r] = "loadConfig"
    /\ region' = [region EXCEPT ![r] =
           getRegionFromProfile(profile, configFile, credentialsFile,
                                awsRegion, awsDefaultRegion)]
    /\ pc' = [pc EXCEPT ![r] = "sync"]
    /\ UNCHANGED << envVars, stackVars, now, marker, distributionIds, position,
                    listRequests, invalidations, created, outstanding, mirrored,
                    rejected, error >>

\* loadSharedConfigFiles() rejects: the rejection leaves deployWebsite as it is.
ConfigFailed(r) ==
    /\ pc[r] = "loadConfig"
    /\ \E e \in Rejections("loadSharedConfigFiles") :
           /\ rejected' = [rejected EXCEPT ![r] = e]
           /\ error' = [error EXCEPT ![r] = e.message]
    /\ pc' = [pc EXCEPT ![r] = "failed"]
    /\ outstanding' = [outstanding EXCEPT ![r] = @ - 1]
    /\ UNCHANGED << envVars, stackVars, now, region, marker, distributionIds, position,
                    listRequests, invalidations, created, mirrored >>

\* syncClient.sync resolves: findDistributionsForBucket starts and sends its
\* first ListDistributions request, with Marker undefined.
SyncSucceeded(r) ==
    /\ pc[r] = "sync"
    /\ pc' = [pc EXCEPT ![r] = "list"]
    /\ marker' = [marker EXCEPT ![r] = 0]
    /\ distributionIds' = [distributionIds EXCEPT ![r] = << >>]
    /\ listRequests' = [listRequests EXCEPT ![r] = Append(@, 0)]
    /\ mirrored' = [mirrored EXCEPT ![r] = TRUE]
    /\ UNCHANGED << envVars, stackVars, now, region, position, invalidations, created,
                    outstanding, rejected, error >>

\* SyncFailed with a catch block that logs the error and goes on to discovery.
SyncFailedSwallowed(r) ==
    /\ pc[r] = "sync"
    /\ \E e \in Rejections("sync") : rejected' = [rejected EXCEPT ![r] = e]
    /\ pc' = [pc EXCEPT ![r] = "list"]
    /\ marker' = [marker EXCEPT ![r] = 0]
    /\ distributionIds' = [distributionIds EXCEPT ![r] = << >>]
    /\ listRequests' = [listRequests EXCEPT ![r] = Append(@, 0)]
    /\ UNCHANGED << envVars, stackVars, now, region, position, invalidations, created,
                    outstanding, mirrored, error >>

\* syncClient.sync rejects: the catch block throws the wrapped error.
SyncFailed(r) ==
    /\ pc[r] = "sync"
    /\ \E e \in Rejections("sync") :
           /\ rejected' = [rejected EXCEPT ![r] = e]
           /\ error' = [error EXCEPT ![r] = SyncFailedMessage(e.message)]
    /\ pc' = [pc EXCEPT ![r] = "failed"]
    /\ outstanding' = [outstanding EXCEPT ![r] = @ - 1]
    /\ UNCHANGED << envVars, stackVars, now, region, marker, distributionIds, position,
                    listRequests, invalidations, created, mirrored >>

\* A ListDistributions request is answered: the page is scanned, and either the
\* next page is requested, or discovery returns and the for-loop over
\* distributionIds starts.
ListResponded(r) ==
    /\ pc[r] = "list"
    /\ LET response == Response(marker[r])
           ids      == distributionIds[r] \o ScanDistributions(response.Items, 1, bucketName)
           next     == response.NextMarker
       IN  /\ distributionIds' = [distributionIds EXCEPT ![r] = ids]
           /\ marker' = [marker EXCEPT ![r] = next]
           /\ IF Continue(next)
              THEN /\ listRequests' = [listRequests EXCEPT ![r] = Append(@, next)]
                   /\ UNCHANGED << pc, now, position, invalidations, outstanding >>
              ELSE IF ids = << >>
              THEN /\ pc' = [pc EXCEPT ![r] = "done"]
                   /\ outstanding' = [outstanding EXCEPT ![r] = @ - 1]
                   /\ UNCHANGED << now, position, listRequests, invalidations >>
              ELSE /\ pc' = [pc EXCEPT ![r] = "invalidate"]
                   /\ SendInvalidation(r, ids, 1)
                   /\ UNCHANGED << listRequests, outstanding >>
    /\ UNCHANGED << envVars, stackVars, region, created, mirrored, rejected, error >>

\* ListFailed with the rejection caught inside discovery, which returns the
\* identifiers found so far.
ListFailedPartial(r) ==
    /\ pc[r] = "list"
    /\ \E e \in Rejections("ListDistributions") : rejected' = [rejected EXCEPT ![r] = e]
    /\ IF distributionIds[r] = << >>
       THEN /\ pc' = [pc EXCEPT ![r] = "done"]
            /\ outstanding' = [outstanding EXCEPT ![r] = @ - 1]
            /\ UNCHANGED << now, position, invalidations >>
       ELSE /\ pc' = [pc EXCEPT ![r] = "invalidate"]
            /\ SendInvalidation(r, distributionIds[r], 1)
            /\ UNCHANGED outstanding
    /\ UNCHANGED << envVars, stackVars, region, marker, distributionIds, listRequests,
                    created, mirrored, error >>

\* A ListDistributions request rejects: nothing catches it.
ListFailed(r) ==
    /\ pc[r] = "list"
    /\ \E e \in Rejections("ListDistributions") :
           /\ rejected' = [rejected EXCEPT ![r] = e]
           /\ error' = [error EXCEPT ![r] = e.message]
    /\ pc' = [pc EXCEPT ![r] = "failed"]
    /\ outstanding' = [outstanding EXCEPT ![r] = @ - 1]
    /\ UNCHANGED << envVars, stackVars, now, region, marker, distributionIds, position,
                    listRequests, invalidations, created, mirrored >>

\* InvalidationCreated with a for-loop that stops one identifier short.
InvalidationCreatedSkipLast(r) ==
    /\ pc[r] = "invalidate"
    /\ created' = [created EXCEPT ![r] = @ + 1]
    /\ IF position[r] + 1 < Len(distributionIds[r])
       THEN /\ SendInvalidation(r, distributionIds[r], position[r] + 1)
            /\ UNCHANGED << pc, outstanding >>
       ELSE /\ pc' = [pc EXCEPT ![r] = "done"]
            /\ outstanding' = [outstanding EXCEPT ![r] = @ - 1]
            /\ UNCHANGED << now, position, invalidations >>
    /\ UNCHANGED << envVars, stackVars, region, marker, distributionIds, listRequests,
                    mirrored, rejected, error >>

\* A CreateInvalidation request resolves: the for-loop goes on to the next
\* identifier, or deployWebsite returns.
InvalidationCreated(r) ==
    /\ pc[r] = "invalidate"
    /\ created' = [created EXCEPT ![r] = @ + 1]
    /\ IF position[r] < Len(distributionIds[r])
       THEN /\ SendInvalidation(r, distributionIds[r], position[r] + 1)
            /\ UNCHANGED << pc, outstanding >>
       ELSE /\ pc' = [pc EXCEPT ![r] = "done"]
            /\ outstanding' = [outstanding EXCEPT ![r] = @ - 1]
            /\ UNCHANGED << now, position, invalidations >>
    /\ UNCHANGED << envVars, stackVars, region, marker, distributionIds, listRequests,
                    mirrored, rejected, error >>

\* InvalidationFailed with the rejection caught inside the for-loop, which goes
\* on to the next identifier.
InvalidationFailedIsolated(r) ==
    /\ pc[r] = "invalidate"
    /\ \E e \in Rejections("CreateInvalidation") : rejected' = [rejected EXCEPT ![r] = e]
    /\ IF position[r] < Len(distributionIds[r])
       THEN /\ SendInvalidation(r, distributionIds[r], position[r] + 1)
            /\ UNCHANGED << pc, outstanding >>
       ELSE /\ pc' = [pc EXCEPT ![r] = "done"]
            /\ outstanding' = [outstanding EXCEPT ![r] = @ - 1]
            /\ UNCHANGED << now, position, invalidations >>
    /\ UNCHANGED << envVars, stackVars, region, marker, distributionIds, listRequests,
                    created, mirrored, error >>

\* A CreateInvalidation request rejects: nothing catches it.
InvalidationFailed(r) ==
    /\ pc[r] = "invalidate"
    /\ \E e \in Rejections("CreateInvalidation") :
           /\ rejected' = [rejected EXCEPT ![r] = e]
           /\ error' = [error EXCEPT ![r] = e.message]
    /\ pc' = [pc EXCEPT ![r] = "failed"]
    /\ outstanding' = [outstanding EXCEPT ![r] = @ - 1]
    /\ UNCHANGED << envVars, stackVars, now, region, marker, distributionIds, position,
                    listRequests, invalidations, created, mirrored >>

----------------------------------------------------------------------------
(* getWebsiteBucketName *)

LowerLetters ==
    { "a", "b", "c", "d", "e", "f", "g", "h", "i", "j", "k", "l", "m",
      "n", "o", "p", "q", "r", "s", "t", "u", "v", "w", "x", "y", "z" }

DigitChars == { "0", "1", "2", "3", "4", "5", "6", "7", "8", "9" }

UpperCase ==
    << "A", "B", "C", "D", "E", "F", "G", "H", "I", "J", "K", "L", "M",
       "N", "O", "P", "Q", "R", "S", "T", "U", "V", "W", "X", "Y", "Z" >>

LowerCase ==
    << "a", "b", "c", "d", "e", "f", "g", "h", "i", "j", "k", "l", "m",
       "n", "o", "p", "q", "r", "s", "t", "u", "v", "w", "x", "y", "z" >>

\* toLowerCase on one character.
LowerCaseOf(c) ==
    IF \E i \in 1..Len(UpperCase) : UpperCase[i] = c
    THEN LowerCase[CHOOSE i \in 1..Len(UpperCase) : UpperCase[i] = c]
    ELSE c

\* .toLowerCase()
ToLowerCase(s) == [i \in 1..Len(s) |-> LowerCaseOf(s[i])]

\* .replace(/\./g, "-")
ReplaceDots(s) == [i \in 1..Len(s) |-> IF s[i] = "." THEN "-" ELSE s[i]]

\* .replace(/[^a-z0-9-]/g, "")
IsValidChar(c) == c \in LowerLetters \cup DigitChars \cup {"-"}

RemoveInvalid(s) == SelectSeq(s, IsValidChar)

\* .replace(/-+/g, "-")
RECURSIVE CollapseHyphens(_)
CollapseHyphens(s) ==
    IF Len(s) <= 1 THEN s
    ELSE IF s[1] = "-" /\ s[2] = "-" THEN CollapseHyphens(Tail(s))
    ELSE << s[1] >> \o CollapseHyphens(Tail(s))

\* .replace(/^-|-$/g, ""): one hyphen at the start and one at the end.
TrimHyphens(s) ==
    LET a == IF Len(s) > 0 /\ s[1] = "-" THEN Tail(s) ELSE s
    IN  IF Len(a) > 0 /\ a[Len(a)] = "-" THEN SubSeq(a, 1, Len(a) - 1) ELSE a

Sanitize(d) == TrimHyphens(CollapseHyphens(RemoveInvalid(ReplaceDots(ToLowerCase(d)))))

WebsiteSuffix == << "-", "w", "e", "b", "s", "i", "t", "e" >>

MinBucketLen == 3
MaxBucketLen == 63

NotCalled == [called |-> FALSE, thrown |-> "", name |-> << >>]

Thrown(message) == [called |-> TRUE, thrown |-> message, name |-> << >>]

Returned(name) == [called |-> TRUE, thrown |-> "", name |-> name]

getWebsiteBucketName(d) ==
    LET name == Sanitize(d) \o WebsiteSuffix
    IN  IF Len(name) < MinBucketLen THEN Thrown("Bucket name too short")
        ELSE IF Len(name) > MaxBucketLen THEN Thrown("Bucket name too long")
        ELSE Returned(name)

\* The PlatformStack constructor names the website bucket after props.domain.
NewPlatformStack ==
    /\ ~websiteBucket.called
    /\ websiteBucket' = getWebsiteBucketName(domain)
    /\ UNCHANGED << envVars, now, pc, region, marker, distributionIds, position,
                    listRequests, invalidations, created, outstanding, mirrored,
                    rejected, error, domain >>

----------------------------------------------------------------------------
(* Inputs *)

BucketB  == << "b" >>
BucketOB == << "o", "b" >>

BucketNames == {BucketB, BucketOB}

DomB     == << "b", ".", "s", "3", ".", "a" >>        \* origin of bucket "b"
DomOB    == << "o", "b", ".", "s", "3", ".", "a" >>   \* origin of bucket "ob"
DomUpper == << "B", ".", "s", "3", ".", "a" >>        \* differs in case only
DomShort == << "b", ".", "s" >>                       \* shorter than the prefix

IdE1 == << "E", "1" >>
IdE2 == << "E", "2" >>
IdE3 == << "E", "3" >>

\* The distributions a page is made of. A page may hold the same distribution
\* twice: the listing is whatever the API serves.
DistPool ==
    { [Id |-> IdE1,  Origins |-> << DomB >>],
      [Id |-> IdE2,  Origins |-> << DomOB, DomOB >>],
      [Id |-> << >>, Origins |-> << DomB, DomOB >>],
      [Id |-> IdE3,  Origins |-> << DomUpper, DomShort, << >>, DomB, DomB >>] }

\* The distributions of a listing, in listing order.
DistLists == UNION { [1..n -> DistPool] : n \in 0..MaxDists }

RECURSIVE Sum(_, _)
Sum(f, n) == IF n = 0 THEN 0 ELSE f[n] + Sum(f, n - 1)

\* The ways of cutting total distributions into n pages (a page may be empty).
Splits(n, total) == {f \in [1..n -> 0..total] : Sum(f, n) = total}

\* A listing of n pages: page i carries the marker of page i + 1, the last none.
Paginate(dists, f, n) ==
    [i \in 1..n |-> [Items      |-> SubSeq(dists, Sum(f, i - 1) + 1, Sum(f, i)),
                     NextMarker |-> IF i < n THEN i + 1 ELSE 0]]

\* The listings: no DistributionList at all, or 1..MaxPages pages.
Listings ==
    {<< >>} \cup
    UNION { UNION { {Paginate(dists, f, n) : f \in Splits(n, Len(dists))}
                    : dists \in DistLists } : n \in 1..MaxPages }

Sections(regions) == {NoSection} \cup {Section(g) : g \in regions}

InitRun ==
    /\ pc = [r \in Runs |-> "idle"]
    /\ region = [r \in Runs |-> ""]
    /\ marker = [r \in Runs |-> 0]
    /\ distributionIds = [r \in Runs |-> << >>]
    /\ position = [r \in Runs |-> 0]
    /\ listRequests = [r \in Runs |-> << >>]
    /\ invalidations = [r \in Runs |-> << >>]
    /\ created = [r \in Runs |-> 0]
    /\ outstanding = [r \in Runs |-> 0]
    /\ mirrored = [r \in Runs |-> FALSE]
    /\ rejected = [r \in Runs |-> NoRejection]
    /\ error = [r \in Runs |-> ""]
    /\ now \in {t \in Clock : \A u \in Clock : t <= u}

InitStack ==
    /\ domain = << >>
    /\ websiteBucket = NotCalled

InitProfile ==
    /\ profile = ""
    /\ configFile = [p \in ProfileNames |-> Section("eu-west-1")]
    /\ credentialsFile = [p \in ProfileNames |-> NoSection]
    /\ awsRegion = ""
    /\ awsDefaultRegion = ""

\* One invocation of deployWebsite, over every listing.
Init ==
    /\ runs = {1}
    /\ bucketName \in BucketNames
    /\ listing \in Listings
    /\ InitProfile
    /\ InitRun
    /\ InitStack

Next ==
    \E r \in Runs :
        \/ Start(r)
        \/ ConfigLoaded(r)
        \/ ConfigFailed(r)
        \/ SyncSucceeded(r)
        \/ SyncFailed(r)
        \/ ListResponded(r)
        \/ ListFailed(r)
        \/ InvalidationCreated(r)
        \/ InvalidationFailed(r)

Spec == Init /\ [][Next]_vars

\* Two invocations of deployWebsite against the same bucket, one after the
\* other or overlapping.
ConcurrentListings == {l \in Listings : Len(l) = 1 /\ Len(l[1].Items) <= 1}

InitConcurrent ==
    /\ runs = {1, 2}
    /\ bucketName = BucketB
    /\ listing \in ConcurrentListings
    /\ InitProfile
    /\ InitRun
    /\ InitStack

SpecConcurrent == InitConcurrent /\ [][Next]_vars

\* One invocation of deployWebsite, over every configuration of the region.
InitRegion ==
    /\ runs = {1}
    /\ bucketName = BucketB
    /\ listing = << [Items |-> << [Id |-> IdE1, Origins |-> << DomB >>] >>,
                    NextMarker |-> 0] >>
    /\ profile \in {"", "default", "prod"}
    /\ configFile \in [ProfileNames -> Sections({"", "eu-west-1"})]
    /\ credentialsFile \in [ProfileNames -> Sections({"", "ap-south-1"})]
    /\ awsRegion \in {"", "us-west-2"}
    /\ awsDefaultRegion \in {"", "eu-central-1"}
    /\ InitRun
    /\ InitStack

SpecRegion == InitRegion /\ [][Next]_vars

\* The domains: every string of at most MaxDomainLen characters, and domains
\* whose bucket name is around the longest allowed.
DomainChars == { "a", "A", "1", ".", "-", "_" }

LongDomain(n) == [i \in 1..n |-> IF i % 9 = 0 THEN "." ELSE "a"]

Domains ==
    UNION { [1..n -> DomainChars] : n \in 0..MaxDomainLen }
    \cup { LongDomain(n) : n \in (MaxBucketLen - Len(WebsiteSuffix) - 2)
                                 ..(MaxBucketLen - Len(WebsiteSuffix) + 2) }

InitBucket ==
    /\ runs = {}
    /\ bucketName = BucketB
    /\ listing = << >>
    /\ InitProfile
    /\ InitRun
    /\ domain \in Domains
    /\ websiteBucket = NotCalled

NextBucket == NewPlatformStack

SpecBucket == InitBucket /\ [][NextBucket]_vars

----------------------------------------------------------------------------
(* Properties *)

\* findDistributionsForBucket has returned to deployWebsite.
DiscoveryReturned(r) ==
    \/ pc[r] \in {"invalidate", "done"}
    \/ rejected[r].call = "CreateInvalidation"

IsPrefixOf(a, b) ==
    /\ Len(a) <= Len(b)
    /\ \A i \in 1..Len(a) : a[i] = b[i]

\* C1: no CreateInvalidation request is issued before syncClient.sync has
\* reported success; when the mirror fails the run ends with the thrown
\* (wrapped) error and no ListDistributions and no CreateInvalidation request
\* is issued.
SyncThenInvalidate ==
    \A r \in Runs :
        /\ invalidations[r] # << >> => mirrored[r]
        /\ rejected[r].call = "sync" =>
               /\ pc[r] = "failed"
               /\ error[r] = SyncFailedMessage(rejected[r].message)
               /\ ~mirrored[r]
               /\ listRequests[r] = << >>
               /\ invalidations[r] = << >>
               /\ created[r] = 0

\* A run whose mirror succeeded and that has issued an invalidation.
InvalidationAfterSync ==
    \E r \in Runs : mirrored[r] /\ invalidations[r] # << >>

\* The page a request carrying Marker m asks for.
PageRequested(m) == IF m = 0 THEN 1 ELSE m

\* The Marker of the request for each page of the listing: none for the first
\* page, the NextMarker of the page before for the others. A listing without
\* any page is answered by one request.
ExpectedMarkers ==
    [i \in 1..(IF listing = << >> THEN 1 ELSE Len(listing)) |->
        IF i = 1 THEN 0 ELSE listing[i - 1].NextMarker]

\* C2: over a listing of N pages discovery requests every page exactly once,
\* in order, each request carrying the NextMarker of the page before (none for
\* the first), and it stops after the page without a marker; a listing without
\* distributions is answered by a single request and gives the empty list.
PagesVisitedOnce ==
    \A r \in Runs :
        /\ IsPrefixOf(listRequests[r], ExpectedMarkers)
        /\ \A i \in 1..Len(listRequests[r]) : PageRequested(listRequests[r][i]) = i
        /\ DiscoveryReturned(r) =>
               /\ listRequests[r] = ExpectedMarkers
               /\ marker[r] = 0
        /\ (DiscoveryReturned(r) /\ listing = << >>) =>
               /\ listRequests[r] = << 0 >>
               /\ distributionIds[r] = << >>

\* Discovery has returned from a listing of several pages.
SeveralPagesVisited ==
    \E r \in Runs :
        /\ DiscoveryReturned(r)
        /\ Len(listing) >= 2
        /\ Len(listRequests[r]) = Len(listing)

\* The distributions of the listing, page after page.
RECURSIVE ListedFrom(_)
ListedFrom(i) ==
    IF i > Len(listing) THEN << >> ELSE listing[i].Items \o ListedFrom(i + 1)

\* Some origin of dist has a domain name that begins with "<bucket>.s3".
HasMatchingOrigin(dist, bucket) ==
    \E k \in 1..Len(dist.Origins) :
        IsPrefixOf(bucket \o << ".", "s", "3" >>, dist.Origins[k])

NumMatchingOrigins(dist, bucket) ==
    Cardinality({k \in 1..Len(dist.Origins) :
                    IsPrefixOf(bucket \o << ".", "s", "3" >>, dist.Origins[k])})

\* The identifiers of the listed distributions that have a matching origin (and
\* an identifier), in listing order, one per distribution.
MatchingIds(bucket) ==
    LET matching == SelectSeq(ListedFrom(1),
                        LAMBDA d : d.Id # << >> /\ HasMatchingOrigin(d, bucket))
    IN  [i \in 1..Len(matching) |-> matching[i].Id]

\* C3: discovery returns exactly the identifiers of the listed distributions
\* that have at least one origin whose domain name starts with "<bucket>.s3",
\* in listing order, each distribution contributing its identifier at most
\* once and a distribution without a matching origin contributing nothing.
DiscoveryReturnsMatches ==
    \A r \in Runs :
        DiscoveryReturned(r) => distributionIds[r] = MatchingIds(bucketName)

\* Discovery has returned two identifiers or more from a listing that holds a
\* distribution with several matching origins and one with none.
MatchesReturned ==
    \E r \in Runs :
        /\ DiscoveryReturned(r)
        /\ Len(distributionIds[r]) >= 2
        /\ \E i \in 1..Len(ListedFrom(1)) :
               /\ ListedFrom(1)[i].Id # << >>
               /\ NumMatchingOrigins(ListedFrom(1)[i], bucketName) >= 2
        /\ \E i \in 1..Len(ListedFrom(1)) :
               /\ ListedFrom(1)[i].Id # << >>
               /\ NumMatchingOrigins(ListedFrom(1)[i], bucketName) = 0

\* deployWebsite has the region getRegionFromProfile returned.
RegionResolved(r) ==
    /\ pc[r] \notin {"idle", "loadConfig"}
    /\ rejected[r].call # "loadSharedConfigFiles"

RECURSIVE FirstNonEmpty(_)
FirstNonEmpty(candidates) ==
    IF Len(candidates) = 1 \/ Head(candidates) # "" THEN Head(candidates)
    ELSE FirstNonEmpty(Tail(candidates))

\* C4: getRegionFromProfile returns the first non-empty of: the profile's
\* region in the config file, the same profile's region in the credentials
\* file, AWS_REGION, AWS_DEFAULT_REGION, "us-east-1".
RegionByPrecedence ==
    \A r \in Runs :
        RegionResolved(r) =>
            LET profileName == IF profile = "" THEN "default" ELSE profile
            IN  region[r] = FirstNonEmpty(<< configFile[profileName].region,
                                             credentialsFile[profileName].region,
                                             awsRegion, awsDefaultRegion, "us-east-1" >>)

\* The naming constraints: lower-case letters, digits and hyphens only, 3 to 63
\* characters, no hyphen at either end, no two hyphens in a row.
ValidBucketName(name) ==
    /\ \A i \in 1..Len(name) : name[i] \in LowerLetters \cup DigitChars \cup {"-"}
    /\ Len(name) >= 3
    /\ Len(name) <= 63
    /\ name[1] # "-"
    /\ name[Len(name)] # "-"
    /\ \A i \in 1..(Len(name) - 1) : ~(name[i] = "-" /\ name[i + 1] = "-")

\* C5: getWebsiteBucketName either throws or returns a name that satisfies
\* every naming constraint.
BucketNameValid ==
    (websiteBucket.called /\ websiteBucket.thrown = "") =>
        ValidBucketName(websiteBucket.name)

\* C6: for a domain whose sanitized form has fewer than 2 characters
\* getWebsiteBucketName fails with the too-short error and returns no name.
ShortDomainRejected ==
    (websiteBucket.called /\ Len(Sanitize(domain)) < 2) =>
        /\ websiteBucket.thrown = "Bucket name too short"
        /\ websiteBucket.name = << >>

ReferencesDistinctAcrossRuns ==
    \A r1, r2 \in Runs :
        r1 # r2 =>
            \A i \in 1..Len(invalidations[r1]) :
                \A j \in 1..Len(invalidations[r2]) :
                    invalidations[r1][i].CallerReference
                        # invalidations[r2][j].CallerReference

\* C9: when a ListDistributions request fails, on the first page or a later
\* one, the failure leaves deployWebsite as it is, no CreateInvalidation
\* request is issued and no page is requested a second time.
ListingFailureAborts ==
    \A r \in Runs :
        rejected[r].call = "ListDistributions" =>
            /\ pc[r] = "failed"
            /\ error[r] = rejected[r].message
            /\ invalidations[r] = << >>
            /\ created[r] = 0
            /\ IsPrefixOf(listRequests[r], ExpectedMarkers)
            /\ \A i, j \in 1..Len(listRequests[r]) :
                   i # j => listRequests[r][i] # listRequests[r][j]

\* The request for a later page failed after earlier pages gave matches.
LaterPageFailed ==
    \E r \in Runs :
        /\ rejected[r].call = "ListDistributions"
        /\ Len(listRequests[r]) >= 2
        /\ distributionIds[r] # << >>

\* C10: when the CreateInvalidation request for the k-th identifier fails,
\* deployWebsite throws, the requests issued are those for the first k
\* identifiers, one each, the first k-1 of them succeeded, and nothing is
\* issued for the identifiers after the k-th.
InvalidationFailureAborts ==
    \A r \in Runs :
        rejected[r].call = "CreateInvalidation" =>
            LET k == position[r]
            IN  /\ pc[r] = "failed"
                /\ error[r] = rejected[r].message
                /\ k \in 1..Len(distributionIds[r])
                /\ Len(invalidations[r]) = k
                /\ created[r] = k - 1
                /\ \A i \in 1..k :
                       invalidations[r][i].DistributionId = distributionIds[r][i]

\* The request for an identifier in the middle of the list failed.
MiddleInvalidationFailed ==
    \E r \in Runs :
        /\ rejected[r].call = "CreateInvalidation"
        /\ position[r] >= 2
        /\ position[r] < Len(distributionIds[r])

\* The run is suspended on a network call.
Awaiting(r) == pc[r] \in {"loadConfig", "sync", "list", "invalidate"}

\* The CreateInvalidation requests sent and neither answered nor rejected.
InvalidationsInFlight(r) ==
    Len(invalidations[r]) - created[r]
        - (IF rejected[r].call = "CreateInvalidation" THEN 1 ELSE 0)

\* C11: in every state of a run at most one network call is outstanding: each
\* call is awaited to completion before the next is issued, two invalidation
\* requests are never in flight together and no invalidation is in flight
\* while the config load, the mirror or a listing request is.
OneCallOutstanding ==
    \A r \in Runs :
        /\ outstanding[r] \in {0, 1}
        /\ outstanding[r] = 1 <=> Awaiting(r)
        /\ InvalidationsInFlight(r) \in {0, 1}
        /\ InvalidationsInFlight(r) = 1 <=> pc[r] = "invalidate"
        /\ pc[r] \in {"loadConfig", "sync", "list"} => invalidations[r] = << >>

\* A second invalidation request is in flight, after the first was answered,
\* with identifiers still to come.
SecondInvalidationInFlight ==
    \E r \in Runs :
        /\ pc[r] = "invalidate"
        /\ created[r] >= 1
        /\ position[r] < Len(distributionIds[r])
        /\ Len(listRequests[r]) >= 2

\* C12: when the mirror and every listing and invalidation call succeed,
\* deployWebsite issues exactly one CreateInvalidation request, for the path
\* "/*", for each identifier discovery returned, in discovery order and only
\* after the last page of the listing was read, and then returns without
\* error; when discovery returns no identifier it returns without error and
\* without having issued an invalidation.
InvalidatesEveryMatch ==
    \A r \in Runs :
        /\ invalidations[r] # << >> =>
               /\ listRequests[r] = ExpectedMarkers
               /\ marker[r] = 0
               /\ distributionIds[r] = MatchingIds(bucketName)
        /\ \A i \in 1..Len(invalidations[r]) :
               /\ i <= Len(distributionIds[r])
               /\ invalidations[r][i].DistributionId = distributionIds[r][i]
               /\ invalidations[r][i].Paths = << "/*" >>
        /\ (rejected[r] = NoRejection /\ pc[r] \notin {"idle", "loadConfig", "sync", "list"}) =>
               /\ mirrored[r]
               /\ pc[r] \in {"invalidate", "done"}
               /\ pc[r] = "invalidate" => created[r] = Len(invalidations[r]) - 1
        /\ pc[r] = "done" =>
               /\ rejected[r] = NoRejection
               /\ error[r] = ""
               /\ mirrored[r]
               /\ Len(invalidations[r]) = Len(distributionIds[r])
               /\ created[r] = Len(distributionIds[r])

\* A run returned after invalidating several distributions found over several
\* pages.
SeveralInvalidated ==
    \E r \in Runs :
        /\ pc[r] = "done"
        /\ Len(distributionIds[r]) >= 2
        /\ Len(listing) >= 2

====
